---- MODULE Spec2Model ----
(***************************************************************************)
(* Model of scripts/scan_signals.py: swing-point extraction, Head &        *)
(* Shoulders detection, entry simulation, signal construction and the      *)
(* per-ticker scan loop of main().                                         *)
(*                                                                         *)
(* Prices are exact integers (the code's floats are modelled by exact      *)
(* rational arithmetic, every comparison cross-multiplied).  Series are    *)
(* TLA+ sequences; the code's 0-based positions are kept in every 'index'  *)
(* field and cell i of a column is read with At(column, i).                *)
(***************************************************************************)
EXTENDS Integers, Sequences, FiniteSets, TLC

VARIABLES
    pc,             \* the position in the program
    data,           \* the session table (df): columns date, high, low, close
    period,         \* find_swing_points: period
    find_tops,      \* find_swing_points: find_tops
    swings,         \* find_swing_points: the returned list
    bearish,        \* detect_hs: bearish
    patterns,       \* detect_hs: the returned list
    ticker,         \* main: the loop variable / generate_signal: ticker
    pattern,        \* main: p / generate_signal: pattern
    entry,          \* main: entry / generate_signal: entry
    signal,         \* main: signal / the record generate_signal returned
    tickers,        \* main: the list load_tickers returned
    ti,             \* main: how many tickers the for loop has taken
    all_patterns,   \* main: all_patterns
    pk,             \* main: how many patterns the inner for loop has taken
    already_closed, \* main: already_closed
    found_signal,   \* main: found_signal
    all_signals,    \* main: all_signals
    today,          \* main: today, as a day number
    out,            \* main: the outcome printed for each ticker, in order
    feed,           \* which tables the data provider can answer with
    fetched         \* what the data provider answered, ticker by ticker

callvars == <<data, period, find_tops, swings, bearish, patterns>>

scanvars == <<ticker, pattern, entry, signal, tickers, ti, all_patterns, pk,
              already_closed, found_signal, all_signals, today, out, feed, fetched>>

vars == <<pc, callvars, scanvars>>

\* ---------------------------------------------------------------------
\* Program constants
\* ---------------------------------------------------------------------
SWING_PERIOD == 5
NECKLINE_WINDOW == 20
\* SHOULDER_TOL = 0.15 and HEAD_MIN_DIFF = 0.05, as whole percents
SHOULDER_TOL_PCT == 15
HEAD_MIN_DIFF_PCT == 5
\* STOP_LOSS_PCT = 3.5, TAKE_PROFIT_PCT = 9.0, TRAILING_PCT = 2.5, in tenths of a percent
STOP_LOSS_PERMILLE == 35
TAKE_PROFIT_PERMILLE == 90
TRAILING_PERMILLE == 25
\* len(df) < 50, and today - timedelta(days=7)
MIN_SESSIONS == 50
RECENT_DAYS == 7

\* ---------------------------------------------------------------------
\* Bounds of the model
\* ---------------------------------------------------------------------
MaxN == 8
MaxPrice == 3
MaxPeriod == 2
MinPivots == 4
MaxPivots == 6
MaxEntryOffset == 120
MaxFileSymbols == 2
MaxLag == 3

\* ---------------------------------------------------------------------
\* Helpers
\* ---------------------------------------------------------------------
At(col, i) == col[i + 1]

DataLen(d) == Len(d.date)

Const(n, v) == [k \in 1..n |-> v]

Days(n) == [k \in 1..n |-> k - 1]

EmptyData == [date |-> <<>>, high |-> <<>>, low |-> <<>>, close |-> <<>>]

\* Python's None, for a pattern, an entry and a signal not yet assigned
NoPattern == [type |-> "none"]

NoEntry == [entry_index |-> -1]

NoSignal == [signal_type |-> "none"]

\* the variables of main() before main() runs
ScanIdle ==
    /\ ticker = ""
    /\ pattern = NoPattern
    /\ entry = NoEntry
    /\ signal = NoSignal
    /\ tickers = <<>>
    /\ ti = 0
    /\ all_patterns = <<>>
    /\ pk = 0
    /\ already_closed = FALSE
    /\ found_signal = FALSE
    /\ all_signals = <<>>
    /\ today = 0
    /\ out = <<>>
    /\ feed = "none"
    /\ fetched = <<>>

\* ---------------------------------------------------------------------
\* find_swing_points
\* ---------------------------------------------------------------------
\* the inner loop over j, with its early break
RECURSIVE WindowScanTies(_, _, _, _, _)
WindowScanTies(prices, i, j, p, tops) ==
    IF j > p THEN TRUE
    ELSE LET current == At(prices, i)
             before  == At(prices, i - j)
             after   == At(prices, i + j)
         IN  IF tops
             THEN IF before > current \/ after > current THEN FALSE
                  ELSE WindowScanTies(prices, i, j + 1, p, tops)
             ELSE IF before < current \/ after < current THEN FALSE
                  ELSE WindowScanTies(prices, i, j + 1, p, tops)

\* compares the two adjacent sessions only
WindowScanAdjacent(prices, i, j, p, tops) ==
    IF tops
    THEN At(prices, i - 1) < At(prices, i) /\ At(prices, i + 1) < At(prices, i)
    ELSE At(prices, i - 1) > At(prices, i) /\ At(prices, i + 1) > At(prices, i)

RECURSIVE WindowScan(_, _, _, _, _)
WindowScan(prices, i, j, p, tops) ==
    IF j > p THEN TRUE
    ELSE LET current == At(prices, i)
             before  == At(prices, i - j)
             after   == At(prices, i + j)
         IN  IF tops
             THEN IF before >= current \/ after >= current THEN FALSE
                  ELSE WindowScan(prices, i, j + 1, p, tops)
             ELSE IF before <= current \/ after <= current THEN FALSE
                  ELSE WindowScan(prices, i, j + 1, p, tops)

SwingColumn(d, tops) == IF tops THEN d.high ELSE d.low

\* the outer loop: for i in range(period, n - period)
RECURSIVE SwingLoop(_, _, _, _, _)
SwingLoop(d, i, p, tops, acc) ==
    IF i >= DataLen(d) - p THEN acc
    ELSE LET prices == SwingColumn(d, tops)
         IN  IF WindowScan(prices, i, 1, p, tops)
             THEN SwingLoop(d, i + 1, p, tops,
                      Append(acc, [index |-> i,
                                   price |-> At(prices, i),
                                   date  |-> At(d.date, i)]))
             ELSE SwingLoop(d, i + 1, p, tops, acc)

FindSwingPoints(d, p, tops) == SwingLoop(d, p, p, tops, <<>>)

\* ---------------------------------------------------------------------
\* Specification of find_swing_points on bounded inputs
\* ---------------------------------------------------------------------
SwingInputs(n, col, tops) ==
    IF tops
    THEN [date |-> Days(n), high |-> col, low |-> Const(n, 1), close |-> Const(n, 1)]
    ELSE [date |-> Days(n), high |-> Const(n, MaxPrice), low |-> col,
          close |-> Const(n, MaxPrice)]

InitSwing ==
    /\ pc = "find_swing_points"
    /\ \E n \in 0..MaxN : \E col \in [1..n -> 1..MaxPrice] : \E tops \in BOOLEAN :
          /\ find_tops = tops
          /\ data = SwingInputs(n, col, tops)
    /\ period \in 1..MaxPeriod
    /\ swings = <<>>
    /\ bearish = TRUE
    /\ patterns = <<>>
    /\ ScanIdle

CallFindSwingPoints ==
    /\ pc = "find_swing_points"
    /\ swings' = FindSwingPoints(data, period, find_tops)
    /\ pc' = "swings_returned"
    /\ UNCHANGED <<data, period, find_tops, bearish, patterns, scanvars>>

NextSwing == CallFindSwingPoints

SpecSwing == InitSwing /\ [][NextSwing]_vars

\* ---------------------------------------------------------------------
\* C3: find_swing_points returns, in ascending index order, exactly the
\* indices i with period <= i < n - period whose price is strictly greater
\* (tops, highs) or strictly less (bottoms, lows) than every price at i-k
\* and i+k, 1 <= k <= period; a tie anywhere in the window disqualifies i
\* and no index < period or >= n - period is reported.
\* ---------------------------------------------------------------------
StrictExtremum(prices, i, p, tops) ==
    \A k \in 1..p :
        IF tops
        THEN At(prices, i) > At(prices, i - k) /\ At(prices, i) > At(prices, i + k)
        ELSE At(prices, i) < At(prices, i - k) /\ At(prices, i) < At(prices, i + k)

ExtremaSet(d, p, tops) ==
    {i \in p..(DataLen(d) - p - 1) : StrictExtremum(SwingColumn(d, tops), i, p, tops)}

SwingIndices(sw) == {sw[k].index : k \in 1..Len(sw)}

Ascending(sw) == \A k \in 1..(Len(sw) - 1) : sw[k].index < sw[k + 1].index

C3_SwingsExact ==
    pc = "swings_returned" =>
        /\ Ascending(swings)
        /\ SwingIndices(swings) = ExtremaSet(data, period, find_tops)
        /\ \A k \in 1..Len(swings) :
              /\ swings[k].index >= period
              /\ swings[k].index < DataLen(data) - period
              /\ swings[k].price = At(SwingColumn(data, find_tops), swings[k].index)
              /\ \A j \in 1..period :
                    /\ At(SwingColumn(data, find_tops), swings[k].index - j) # swings[k].price
                    /\ At(SwingColumn(data, find_tops), swings[k].index + j) # swings[k].price

\* a call with period 2 that reports a swing and also rejects an index whose
\* only disqualifying neighbour is an equal price at distance 2
C3_Witness ==
    /\ pc = "swings_returned"
    /\ period = 2
    /\ Len(swings) >= 1
    /\ \E i \in period..(DataLen(data) - period - 1) :
          LET prices == SwingColumn(data, find_tops)
          IN  /\ i \notin SwingIndices(swings)
              /\ StrictExtremum(prices, i, 1, find_tops)
              /\ At(prices, i - 2) = At(prices, i)

\* ---------------------------------------------------------------------
\* detect_hs
\* ---------------------------------------------------------------------
Abs(x) == IF x < 0 THEN -x ELSE x

Min(a, b) == IF a < b THEN a ELSE b

Max(a, b) == IF a < b THEN b ELSE a

\* the geometric test, each float comparison cross-multiplied by 100
\* (prices are positive, so dividing by ls.price keeps the direction)
ValidNoTolerance(ls, h, rs, bear) ==
    IF bear
    THEN /\ h.price * 100 > ls.price * (100 + HEAD_MIN_DIFF_PCT)
         /\ h.price * 100 > rs.price * (100 + HEAD_MIN_DIFF_PCT)
    ELSE /\ h.price * 100 < ls.price * (100 - HEAD_MIN_DIFF_PCT)
         /\ h.price * 100 < rs.price * (100 - HEAD_MIN_DIFF_PCT)

Valid(ls, h, rs, bear) ==
    IF bear
    THEN /\ h.price * 100 > ls.price * (100 + HEAD_MIN_DIFF_PCT)
         /\ h.price * 100 > rs.price * (100 + HEAD_MIN_DIFF_PCT)
         /\ Abs(ls.price - rs.price) * 100 < SHOULDER_TOL_PCT * ls.price
    ELSE /\ h.price * 100 < ls.price * (100 - HEAD_MIN_DIFF_PCT)
         /\ h.price * 100 < rs.price * (100 - HEAD_MIN_DIFF_PCT)
         /\ Abs(ls.price - rs.price) * 100 < SHOULDER_TOL_PCT * ls.price

\* neckline = (lv.price + rv.price) / 2.0 is kept doubled, so that the mean
\* of two integer prices stays an integer: neckline2 = 2 * neckline
Neckline2(lv, rv) == lv.price + rv.price

NoBreak == -1

\* for j in range(rs.index + 1, search_end): the first close beyond the neckline
RECURSIVE BreakScanLast(_, _, _, _, _, _)
BreakScanLast(closes, nl2, j, search_end, bear, found) ==
    IF j >= search_end THEN found
    ELSE IF bear /\ 2 * At(closes, j) < nl2
         THEN BreakScanLast(closes, nl2, j + 1, search_end, bear, j)
         ELSE IF (~bear) /\ 2 * At(closes, j) > nl2
              THEN BreakScanLast(closes, nl2, j + 1, search_end, bear, j)
              ELSE BreakScanLast(closes, nl2, j + 1, search_end, bear, found)

RECURSIVE BreakScan(_, _, _, _, _, _)
BreakScan(closes, nl2, j, search_end, bear, found) ==
    IF j >= search_end THEN found
    ELSE IF bear /\ 2 * At(closes, j) < nl2 THEN j
         ELSE IF (~bear) /\ 2 * At(closes, j) > nl2 THEN j
              ELSE BreakScan(closes, nl2, j + 1, search_end, bear, found)

NecklineBreak(d, rs, nl2, bear) ==
    BreakScan(d.close, nl2, rs.index + 1,
              Min(rs.index + NECKLINE_WINDOW, Len(d.close)), bear, NoBreak)

MakePatternSwapped(d, ls, lv, h, rv, rs, bear, brk) ==
    [type           |-> IF bear THEN "bearish" ELSE "bullish",
     left_shoulder  |-> ls,
     head           |-> h,
     right_shoulder |-> rv,
     left_valley    |-> lv,
     right_valley   |-> rs,
     neckline2      |-> Neckline2(lv, rv),
     break_index    |-> brk,
     break_date     |-> At(d.date, brk),
     break_price    |-> At(d.close, brk),
     pattern_height2 |-> Abs(2 * h.price - Neckline2(lv, rv))]

MakePattern(d, ls, lv, h, rv, rs, bear, brk) ==
    [type           |-> IF bear THEN "bearish" ELSE "bullish",
     left_shoulder  |-> ls,
     head           |-> h,
     right_shoulder |-> rs,
     left_valley    |-> lv,
     right_valley   |-> rv,
     neckline2      |-> Neckline2(lv, rv),
     break_index    |-> brk,
     break_date     |-> At(d.date, brk),
     break_price    |-> At(d.close, brk),
     pattern_height2 |-> Abs(2 * h.price - Neckline2(lv, rv))]

\* keeps the first pattern only
RECURSIVE WindowLoopFirstOnly(_, _, _, _, _)
WindowLoopFirstOnly(d, sw, i, bear, acc) ==
    IF i >= Len(sw) - 4 \/ Len(acc) >= 1 THEN acc
    ELSE LET ls == sw[i + 1]
             lv == sw[i + 2]
             h  == sw[i + 3]
             rv == sw[i + 4]
             rs == sw[i + 5]
             brk == NecklineBreak(d, rs, Neckline2(lv, rv), bear)
         IN  IF Valid(ls, h, rs, bear) /\ brk # NoBreak
             THEN WindowLoopFirstOnly(d, sw, i + 1, bear,
                      Append(acc, MakePattern(d, ls, lv, h, rv, rs, bear, brk)))
             ELSE WindowLoopFirstOnly(d, sw, i + 1, bear, acc)

\* for i in range(len(swings) - 4), i counted from 0
RECURSIVE WindowLoop(_, _, _, _, _)
WindowLoop(d, sw, i, bear, acc) ==
    IF i >= Len(sw) - 4 THEN acc
    ELSE LET ls == sw[i + 1]
             lv == sw[i + 2]
             h  == sw[i + 3]
             rv == sw[i + 4]
             rs == sw[i + 5]
         IN  IF ~Valid(ls, h, rs, bear)
             THEN WindowLoop(d, sw, i + 1, bear, acc)
             ELSE LET nl2 == Neckline2(lv, rv)
                      brk == NecklineBreak(d, rs, nl2, bear)
                  IN  IF brk = NoBreak
                      THEN WindowLoop(d, sw, i + 1, bear, acc)
                      ELSE WindowLoop(d, sw, i + 1, bear,
                               Append(acc, MakePattern(d, ls, lv, h, rv, rs, bear, brk)))

DetectHs(d, bear) ==
    LET sw == FindSwingPoints(d, SWING_PERIOD, bear)
    IN  IF Len(sw) < 5 THEN <<>> ELSE WindowLoop(d, sw, 0, bear, <<>>)

\* ---------------------------------------------------------------------
\* Specification of detect_hs on a bounded family of series.
\*
\* A series has K pivot bars (price spikes in the column detect_hs reads)
\* 6 sessions apart, in some shapes with pivots 2 and 3 only 3 sessions apart,
\* flat filler bars between them, and a tail after the last pivot whose
\* closes sit at one level and step across every neckline at session
\* 'step' of the tail.  Every bar has low <= close <= high.
\* ---------------------------------------------------------------------
PivotPrices(bear) == IF bear THEN {200, 210, 230, 244} ELSE {160, 190, 200, 230}

\* the prices of the even pivots (the valleys of the first window)
EvenPivotPrices(bear) == IF bear THEN {200, 210, 230} ELSE {160, 190, 200}

PivotProfiles(K, bear) ==
    {pv \in [1..K -> PivotPrices(bear)] :
        \A k \in 1..K : k % 2 = 0 => pv[k] \in EvenPivotPrices(bear)}

\* <<tail length, tail session at which the closes step across,
\*   whether pivots 2 and 3 are only 3 sessions apart>>
TailShapes == {<<4, 1, FALSE>>, <<5, 1, FALSE>>, <<5, 3, FALSE>>, <<5, 3, TRUE>>,
               <<19, 19, FALSE>>, <<19, 20, FALSE>>, <<24, 3, FALSE>>,
               <<24, 19, FALSE>>, <<24, 19, TRUE>>, <<24, 20, FALSE>>}

FillLevel(bear) == IF bear THEN 195 ELSE 235
TailBefore(bear) == IF bear THEN 205 ELSE 195
TailAfter(bear) == IF bear THEN 150 ELSE 250
OtherColumn(bear) == IF bear THEN 140 ELSE 260

PivotPos(k, tight) ==
    SWING_PERIOD + (k - 1) * (SWING_PERIOD + 1) - (IF tight /\ k >= 3 THEN 3 ELSE 0)

\* the pivot standing at session i, or 0
PivotAt(i, K, tight) ==
    LET off == IF tight /\ i > PivotPos(2, tight) THEN i + 3 ELSE i
        k == ((off - SWING_PERIOD) \div (SWING_PERIOD + 1)) + 1
    IN  IF off >= SWING_PERIOD /\ (off - SWING_PERIOD) % (SWING_PERIOD + 1) = 0
           /\ k <= K /\ PivotPos(k, tight) = i
        THEN k ELSE 0

TailClose(i, last, shape, bear) ==
    IF i - last < shape[2] THEN TailBefore(bear) ELSE TailAfter(bear)

PivotSeries(pv, shape, bear) ==
    LET K == Len(pv)
        tight == shape[3]
        last == PivotPos(K, tight)
        n == last + 1 + shape[1]
        col == [x \in 1..n |->
                  IF PivotAt(x - 1, K, tight) # 0 THEN pv[PivotAt(x - 1, K, tight)]
                  ELSE IF x - 1 > last THEN TailClose(x - 1, last, shape, bear)
                       ELSE FillLevel(bear)]
        cls == [x \in 1..n |->
                  IF x - 1 > last THEN TailClose(x - 1, last, shape, bear)
                  ELSE FillLevel(bear)]
    IN  [date  |-> Days(n),
         high  |-> IF bear THEN col ELSE Const(n, OtherColumn(bear)),
         low   |-> IF bear THEN Const(n, OtherColumn(bear)) ELSE col,
         close |-> cls]

WellFormed(d) ==
    /\ Len(d.high) = Len(d.date) /\ Len(d.low) = Len(d.date) /\ Len(d.close) = Len(d.date)
    /\ \A x \in 1..Len(d.date) : d.low[x] <= d.close[x] /\ d.close[x] <= d.high[x]
    /\ \A x \in 1..Len(d.date) : d.low[x] > 0
    /\ \A x \in 1..(Len(d.date) - 1) : d.date[x] < d.date[x + 1]

InitDetect ==
    /\ pc = "detect_hs"
    /\ bearish \in BOOLEAN
    /\ \E K \in MinPivots..MaxPivots : \E pv \in PivotProfiles(K, bearish) :
       \E shape \in TailShapes :
          data = PivotSeries(pv, shape, bearish)
    /\ period = SWING_PERIOD
    /\ find_tops = bearish
    /\ swings = <<>>
    /\ patterns = <<>>
    /\ ScanIdle

\* patterns = detect_hs(data, bearish)
CallDetectHs ==
    /\ pc = "detect_hs"
    /\ patterns' = DetectHs(data, bearish)
    /\ pc' = "patterns_returned"
    /\ UNCHANGED <<data, period, find_tops, swings, bearish, scanvars>>

NextDetect == CallDetectHs

SpecDetect == InitDetect /\ [][NextDetect]_vars

DataWellFormed == WellFormed(data)


\* ---------------------------------------------------------------------
\* Reference description of detect_hs's result, written from the swing
\* characterisation and not from the loops above
\* ---------------------------------------------------------------------
NthSmallest(S, k) == CHOOSE x \in S : Cardinality({y \in S : y < x}) = k - 1

\* the swing indices of the relevant kind, in ascending order
SwingIndexSeq(d, bear) ==
    LET S == ExtremaSet(d, SWING_PERIOD, bear)
    IN  [k \in 1..Cardinality(S) |-> NthSmallest(S, k)]

Crosses(d, j, nl2, bear) ==
    IF bear THEN 2 * At(d.close, j) < nl2 ELSE 2 * At(d.close, j) > nl2

IsBearish(p) == p.type = "bearish"

PatternNeckline2(p) == p.left_valley.price + p.right_valley.price

Returned == pc = "patterns_returned"

PatternSet == {patterns[k] : k \in 1..Len(patterns)}

\* ---------------------------------------------------------------------
\* C1: for every Pattern returned by detect_hs, right_shoulder.index <
\* break_index < min(right_shoulder.index + NECKLINE_WINDOW, n), the close
\* at break_index is strictly below (bearish) / above (bullish) the
\* neckline, and no session between the right shoulder and break_index
\* crosses the neckline in that direction (first crossing only).
\* ---------------------------------------------------------------------
C1_BreakIsFirstCrossing ==
    Returned =>
        \A p \in PatternSet :
            LET rsi == p.right_shoulder.index
                b == p.break_index
                nl2 == PatternNeckline2(p)
            IN  /\ p.type = (IF bearish THEN "bearish" ELSE "bullish")
                /\ rsi < b
                /\ b < Min(rsi + NECKLINE_WINDOW, DataLen(data))
                /\ Crosses(data, b, nl2, IsBearish(p))
                /\ \A j \in (rsi + 1)..(b - 1) : ~Crosses(data, j, nl2, IsBearish(p))
                /\ p.break_date = At(data.date, b)
                /\ p.break_price = At(data.close, b)

\* a pattern whose break comes after sessions that do not cross, and is
\* followed inside the search range by further crossing sessions
C1_Witness ==
    /\ Returned
    /\ \E p \in PatternSet :
          /\ p.break_index > p.right_shoulder.index + 1
          /\ \E j \in (p.break_index + 1)..
                      (Min(p.right_shoulder.index + NECKLINE_WINDOW, DataLen(data)) - 1) :
                Crosses(data, j, PatternNeckline2(p), IsBearish(p))

\* ---------------------------------------------------------------------
\* C2: every bearish Pattern has head.price > left_shoulder.price * 1.05,
\* head.price > right_shoulder.price * 1.05 and
\* |ls.price - rs.price| / ls.price < 0.15; every bullish Pattern has
\* head.price < ls.price * 0.95, head.price < rs.price * 0.95 and the same
\* shoulder tolerance.
\* ---------------------------------------------------------------------
C2_Geometry ==
    Returned =>
        \A p \in PatternSet :
            LET ls == p.left_shoulder.price
                h  == p.head.price
                rs == p.right_shoulder.price
            IN  /\ IsBearish(p) => (100 * h > 105 * ls /\ 100 * h > 105 * rs)
                /\ ~IsBearish(p) => (100 * h < 95 * ls /\ 100 * h < 95 * rs)
                /\ 100 * Abs(ls - rs) < 15 * ls

\* a bullish pattern with unequal shoulders
C2_Witness ==
    /\ Returned
    /\ \E p \in PatternSet :
          /\ ~IsBearish(p)
          /\ p.left_shoulder.price # p.right_shoulder.price

\* ---------------------------------------------------------------------
\* C8 as stated: in every Pattern the points are in strict ascending index
\* order left_shoulder < left_valley < head < right_shoulder < right_valley.
\* ---------------------------------------------------------------------
C8_Original ==
    Returned =>
        \A p \in PatternSet :
            /\ p.left_shoulder.index < p.left_valley.index
            /\ p.left_valley.index < p.head.index
            /\ p.head.index < p.right_shoulder.index
            /\ p.right_shoulder.index < p.right_valley.index

\* C8 amended: the strict ascending index order is left_shoulder <
\* left_valley < head < right_valley < right_shoulder (the right valley is
\* the 4th swing point of the window, the right shoulder the 5th).
C8_Amended ==
    Returned =>
        \A p \in PatternSet :
            /\ p.left_shoulder.index < p.left_valley.index
            /\ p.left_valley.index < p.head.index
            /\ p.head.index < p.right_valley.index
            /\ p.right_valley.index < p.right_shoulder.index

C8_Witness == Returned /\ Len(patterns) >= 1 /\ ~bearish

\* ---------------------------------------------------------------------
\* C9: detect_hs performs no deduplication: with k >= 5 swing points the
\* result holds exactly one Pattern for each window of 5 consecutive swing
\* points (start 0..k-5) that passes the geometric test and has a neckline
\* break inside its search range, in ascending window order, and nothing
\* else; with fewer than 5 swing points the result is empty.
\* ---------------------------------------------------------------------
WindowQualifies(d, sw, prices, w, bear) ==
    LET ls == At(prices, sw[w + 1])
        lv == At(prices, sw[w + 2])
        h  == At(prices, sw[w + 3])
        rv == At(prices, sw[w + 4])
        rs == At(prices, sw[w + 5])
    IN  /\ IF bear THEN 100 * h > 105 * ls /\ 100 * h > 105 * rs
                   ELSE 100 * h < 95 * ls /\ 100 * h < 95 * rs
        /\ 100 * Abs(ls - rs) < 15 * ls
        /\ \E j \in (sw[w + 5] + 1)..(Min(sw[w + 5] + NECKLINE_WINDOW, DataLen(d)) - 1) :
              Crosses(d, j, lv + rv, bear)

QualifyingWindows(d, bear) ==
    LET sw == SwingIndexSeq(d, bear)
    IN  {w \in 0..(Len(sw) - 5) : WindowQualifies(d, sw, SwingColumn(d, bear), w, bear)}

C9_OnePatternPerWindow ==
    Returned =>
        LET sw == SwingIndexSeq(data, bearish)
            Q == QualifyingWindows(data, bearish)
        IN  /\ Len(patterns) = Cardinality(Q)
            /\ \A m \in 1..Len(patterns) :
                  LET w == NthSmallest(Q, m)
                      p == patterns[m]
                  IN  /\ p.left_shoulder.index = sw[w + 1]
                      /\ p.left_valley.index = sw[w + 2]
                      /\ p.head.index = sw[w + 3]
                      /\ p.right_valley.index = sw[w + 4]
                      /\ p.right_shoulder.index = sw[w + 5]
            /\ Len(sw) < 5 => patterns = <<>>

\* two patterns from overlapping windows (they share four swing points)
C9_Witness ==
    /\ Returned
    /\ Len(patterns) >= 2
    /\ patterns[1].left_valley.index = patterns[2].left_shoulder.index
    /\ patterns[1].right_shoulder.index = patterns[2].right_valley.index


\* ---------------------------------------------------------------------
\* find_swing_points and detect_hs together
\* ---------------------------------------------------------------------
InitSwingDetect == InitSwing \/ InitDetect

NextSwingDetect == CallFindSwingPoints \/ CallDetectHs

SpecSwingDetect == InitSwingDetect /\ [][NextSwingDetect]_vars

\* ---------------------------------------------------------------------
\* C10: two distinct swing points of one find_swing_points call have
\* indices that differ by at least period + 1 (so consecutive swing points
\* are never index-adjacent), and the five points of any Pattern span at
\* least 4 * (period + 1) sessions.
\* ---------------------------------------------------------------------
C10_SwingSpacing ==
    /\ pc = "swings_returned" =>
          \A a \in 1..Len(swings) : \A b \in 1..Len(swings) :
              a < b => swings[b].index - swings[a].index >= period + 1
    /\ Returned =>
          \A p \in PatternSet :
              LET pts == {p.left_shoulder.index, p.left_valley.index, p.head.index,
                          p.right_valley.index, p.right_shoulder.index}
              IN  /\ Cardinality(pts) = 5
                  /\ \A x \in pts : \A y \in pts : x < y => y - x >= SWING_PERIOD + 1
                  /\ \E x \in pts : \E y \in pts : y - x >= 4 * (SWING_PERIOD + 1)

\* two swing points of period 2 exactly period + 1 sessions apart
C10_Witness ==
    /\ pc = "swings_returned"
    /\ period = 2
    /\ \E a \in 1..Len(swings) : \E b \in 1..Len(swings) :
          swings[b].index - swings[a].index = period + 1


\* ---------------------------------------------------------------------
\* simulate_entry
\* ---------------------------------------------------------------------
SimulateEntry(pat, d) ==
    LET entry_idx == pat.break_index + 1
    IN  IF entry_idx >= DataLen(d) THEN NoEntry
        ELSE [entry_price |-> At(d.close, entry_idx),
              entry_date  |-> At(d.date, entry_idx),
              entry_index |-> entry_idx]

\* ---------------------------------------------------------------------
\* generate_signal
\*
\* An input price x stands for x * 10^-5.  A field rounded by round(., 4)
\* is kept as a count of 10^-4, height_pct (round(., 2)) as a count of
\* 0.01.  round() of a float returns the nearest such count; where the
\* exact value lies halfway between two counts the float's binary
\* representation decides, so both neighbours are possible results.
\* ---------------------------------------------------------------------
\* the counts nearest to num / den   (num >= 0, den > 0)
RoundDiv(num, den) ==
    LET q == num \div den
        r == num % den
    IN  IF 2 * r < den THEN {q}
        ELSE IF 2 * r > den THEN {q + 1}
             ELSE {q, q + 1}

\* the counts nearest to a * m / den, computed without forming a * m
RoundScaled(a, m, den) ==
    {m * (a \div den) + y : y \in RoundDiv(m * (a % den), den)}

\* round(x, 4) for x = price * m / 1000
Round4(price, m) == RoundScaled(price, m, 10000)

\* round(pattern_height / head.price * 100, 2), pattern_height = ph2 / 2
RoundHeightPct(ph2, head) ==
    LET x == ph2 * 50
    IN  {100 * (x \div head) + y : y \in RoundDiv(100 * (x % head), head)}

\* ticker.replace('.MI', '')
Symbol(tk) ==
    CASE tk = "A2A.MI" -> "A2A"
      [] tk = "ENEL.MI" -> "ENEL"
      [] tk = "ENI.MI" -> "ENI"
      [] OTHER -> tk

\* stop_loss / entry_price and take_profit / entry_price, in thousandths
StopFactorMirrored(is_bullish) ==
    IF is_bullish THEN 1000 + STOP_LOSS_PERMILLE ELSE 1000 - STOP_LOSS_PERMILLE

StopFactor(is_bullish) ==
    IF is_bullish THEN 1000 - STOP_LOSS_PERMILLE ELSE 1000 + STOP_LOSS_PERMILLE

TargetFactor(is_bullish) ==
    IF is_bullish THEN 1000 + TAKE_PROFIT_PERMILLE ELSE 1000 - TAKE_PROFIT_PERMILLE

\* the records generate_signal can return
GenerateSignal(tk, pat, ent) ==
    LET entry_price == ent.entry_price
        is_bullish  == pat.type = "bullish"
    IN  {[symbol         |-> Symbol(tk),
          ticker         |-> tk,
          signal_type    |-> IF is_bullish THEN "BUY" ELSE "SELL",
          entry_price    |-> e,
          stop_loss      |-> sl,
          take_profit    |-> tp,
          neckline       |-> nk,
          pattern_height |-> ph,
          height_pct     |-> hp,
          confidence     |-> IF pat.pattern_height2 * 10 > pat.head.price
                             THEN "high" ELSE "medium",
          break_date     |-> pat.break_date,
          entry_date     |-> ent.entry_date,
          head_price     |-> hd,
          ls_price       |-> lp,
          rs_price       |-> rp,
          sl_pct         |-> STOP_LOSS_PERMILLE,
          tp_pct         |-> TAKE_PROFIT_PERMILLE,
          trailing_pct   |-> TRAILING_PERMILLE] :
            e  \in Round4(entry_price, 1000),
            sl \in Round4(entry_price, StopFactor(is_bullish)),
            tp \in Round4(entry_price, TargetFactor(is_bullish)),
            nk \in RoundDiv(pat.neckline2, 20),
            ph \in RoundDiv(pat.pattern_height2, 20),
            hp \in RoundHeightPct(pat.pattern_height2, pat.head.price),
            hd \in RoundDiv(pat.head.price, 10),
            lp \in RoundDiv(pat.left_shoulder.price, 10),
            rp \in RoundDiv(pat.right_shoulder.price, 10)}

\* ---------------------------------------------------------------------
\* Specification of generate_signal on bounded inputs
\* ---------------------------------------------------------------------
Swing(i, price) == [index |-> i, price |-> price, date |-> i]

\* a pattern over sessions 0..59 with shoulders at 'sh', head at 'hd', valleys
\* at 'vl', broken at session 52
SamplePattern(bull, sh, hd, vl, brk_price) ==
    [type           |-> IF bull THEN "bullish" ELSE "bearish",
     left_shoulder  |-> Swing(8, sh),
     head           |-> Swing(24, hd),
     right_shoulder |-> Swing(40, sh),
     left_valley    |-> Swing(16, vl),
     right_valley   |-> Swing(32, vl),
     neckline2      |-> 2 * vl,
     break_index    |-> 52,
     break_date     |-> 52,
     break_price    |-> brk_price,
     pattern_height2 |-> Abs(2 * hd - 2 * vl)]

\* the bullish pattern with head 90, shoulders 100, neckline 105 and break
\* close 107, its bearish mirror, and two patterns of small prices
SamplePatterns ==
    {SamplePattern(TRUE, 10000000, 9000000, 10500000, 10700000),
     SamplePattern(FALSE, 10000000, 11000000, 9500000, 9300000),
     SamplePattern(TRUE, 203, 187, 191, 193),
     SamplePattern(FALSE, 203, 215, 214, 212)}

\* entry prices: 12.34501, 12.34502, ..., one whose stop lies halfway between
\* two counts of 10^-4 (0.01), and 108.0
EntryPrices == {1234500 + k : k \in 1..MaxEntryOffset} \cup {1000, 10800000}

InitSignal ==
    /\ pc = "generate_signal"
    /\ data = EmptyData
    /\ period = SWING_PERIOD
    /\ find_tops = TRUE
    /\ swings = <<>>
    /\ bearish = TRUE
    /\ patterns = <<>>
    /\ ticker \in {"ENI.MI", "AAPL"}
    /\ pattern \in SamplePatterns
    /\ \E price \in EntryPrices :
          entry = [entry_price |-> price,
                   entry_date  |-> pattern.break_date + 1,
                   entry_index |-> pattern.break_index + 1]
    /\ signal = NoSignal
    /\ tickers = <<>>
    /\ ti = 0
    /\ all_patterns = <<>>
    /\ pk = 0
    /\ already_closed = FALSE
    /\ found_signal = FALSE
    /\ all_signals = <<>>
    /\ today = 0
    /\ out = <<>>
    /\ feed = "none"
    /\ fetched = <<>>

\* signal = generate_signal(ticker, pattern, entry)
CallGenerateSignal ==
    /\ pc = "generate_signal"
    /\ signal' \in GenerateSignal(ticker, pattern, entry)
    /\ pc' = "signal_returned"
    /\ UNCHANGED <<callvars, ticker, pattern, entry, tickers, ti, all_patterns, pk,
                   already_closed, found_signal, all_signals, today, out, feed, fetched>>

NextSignal == CallGenerateSignal

SpecSignal == InitSignal /\ [][NextSignal]_vars

\* x (a count of 10^-4) is exactly price * m / 1000
ExactlyScaled(x, price, m) ==
    (x - m * (price \div 10000)) * 10000 = m * (price % 10000)

\* x (a count of 10^-4) is within half of 10^-4 of price * m / 1000
NearestScaled(x, price, m) ==
    Abs((x - m * (price \div 10000)) * 10000 - m * (price % 10000)) <= 5000

SignalReturned == pc = "signal_returned"

\* ---------------------------------------------------------------------
\* C6 as stated: generate_signal maps a bullish pattern to BUY with
\* stop_loss = entry - entry*3.5/100 and take_profit = entry + entry*9/100,
\* a bearish pattern to SELL with stop_loss = entry + entry*3.5/100 and
\* take_profit = entry - entry*9/100; entry price 108 (bullish) yields BUY,
\* entry_price 108.0, stop_loss 104.22, take_profit 117.72.
\* ---------------------------------------------------------------------
C6_Original ==
    SignalReturned =>
        /\ pattern.type = "bullish" =>
              /\ signal.signal_type = "BUY"
              /\ ExactlyScaled(signal.stop_loss, entry.entry_price, 965)
              /\ ExactlyScaled(signal.take_profit, entry.entry_price, 1090)
        /\ pattern.type = "bearish" =>
              /\ signal.signal_type = "SELL"
              /\ ExactlyScaled(signal.stop_loss, entry.entry_price, 1035)
              /\ ExactlyScaled(signal.take_profit, entry.entry_price, 910)

\* C6 amended: the same mapping, with stop_loss and take_profit (and
\* entry_price) each rounded to 4 decimal places: every one is the multiple
\* of 0.0001 nearest to the stated value; entry price 108 (bullish) yields
\* BUY, entry_price 108.0, stop_loss 104.22, take_profit 117.72.
C6_Amended ==
    SignalReturned =>
        /\ NearestScaled(signal.entry_price, entry.entry_price, 1000)
        /\ pattern.type = "bullish" =>
              /\ signal.signal_type = "BUY"
              /\ NearestScaled(signal.stop_loss, entry.entry_price, 965)
              /\ NearestScaled(signal.take_profit, entry.entry_price, 1090)
        /\ pattern.type = "bearish" =>
              /\ signal.signal_type = "SELL"
              /\ NearestScaled(signal.stop_loss, entry.entry_price, 1035)
              /\ NearestScaled(signal.take_profit, entry.entry_price, 910)
        /\ (pattern.type = "bullish" /\ entry.entry_price = 10800000) =>
              /\ signal.signal_type = "BUY"
              /\ signal.entry_price = 1080000
              /\ signal.stop_loss = 1042200
              /\ signal.take_profit = 1177200

\* the signal of the bullish pattern entered at 108.0
C6_Witness ==
    /\ SignalReturned
    /\ pattern.type = "bullish"
    /\ entry.entry_price = 10800000
    /\ signal.stop_loss = 1042200


\* ---------------------------------------------------------------------
\* load_tickers and download_data
\* ---------------------------------------------------------------------
\* DEFAULT_TICKERS, cut to one name of the 42
DEFAULT_TICKERS == {"ENI.MI"}

\* the names a symbols file may hold (after strip and upper), in the order
\* Python's sorted() gives them
TickerOrder == <<"A2A.MI", "AAPL", "ENEL.MI", "ENI.MI">>

InSet(S, t) == t \in S

\* sorted(set(DEFAULT_TICKERS) | lines of the symbols file)
LoadTickers(file_symbols) ==
    LET S == DEFAULT_TICKERS \cup file_symbols
    IN  SelectSeq(TickerOrder, LAMBDA t : InSet(S, t))

NoneData == [none |-> TRUE]

\* download_data: None on an exception or an empty answer, else the table
DownloadData(resp) ==
    IF resp.status = "ok" THEN resp.table ELSE NoneData

TooShortNoneOnly(df) == df = NoneData

\* df is None or len(df) < 50
TooShort(df) == df = NoneData \/ DataLen(df) < MIN_SESSIONS

\* ---------------------------------------------------------------------
\* The tables the provider answers with.
\*
\* 50 sessions dated 0..49.  Swing highs at sessions 19, 25, 31, 37, 43
\* (220, 207, head, 207, 220) and swing lows at 20, 26, 32, 38, 44 (180,
\* 193, head, 193, 180); the head makes the shape valid (244 / 160) or not
\* (220 / 180).  Elsewhere high 205, low 195, close 200, except the last
\* six sessions 44..49, whose closes are given and whose high and low are
\* widened to hold the close.  The bearish neckline is 207, the bullish 193.
\* ---------------------------------------------------------------------
TopPrice(k, bear_ok) ==
    CASE k \in {19, 43} -> 220
      [] k \in {25, 37} -> 207
      [] k = 31 -> (IF bear_ok THEN 244 ELSE 220)
      [] OTHER -> 205

BottomPrice(k, bull_ok) ==
    CASE k \in {20, 44} -> 180
      [] k \in {26, 38} -> 193
      [] k = 32 -> (IF bull_ok THEN 160 ELSE 180)
      [] OTHER -> 195

ScanSeries(bear_ok, bull_ok, tail) ==
    LET cls == [x \in 1..50 |-> IF x - 1 >= 44 THEN tail[x - 44] ELSE 200]
    IN  [date  |-> Days(50),
         high  |-> [x \in 1..50 |-> Max(TopPrice(x - 1, bear_ok), cls[x])],
         low   |-> [x \in 1..50 |-> Min(BottomPrice(x - 1, bull_ok), cls[x])],
         close |-> cls]

\* the table without its first session: 49 sessions
DropFirst(d) ==
    [date |-> Tail(d.date), high |-> Tail(d.high), low |-> Tail(d.low),
     close |-> Tail(d.close)]

LateCloses == {182, 193, 200, 207, 218}

RichTails ==
    {<<a, b, c, d, e, f>> : a \in {200, 207}, b \in {193, 200},
                            c \in LateCloses, d \in LateCloses,
                            e \in LateCloses, f \in LateCloses}

Ok(table) == [status |-> "ok", table |-> table]

Flat == <<200, 200, 200, 200, 200, 200>>

Responses(f) ==
    IF f = "rich"
    THEN {Ok(ScanSeries(a, b, t)) : a \in BOOLEAN, b \in BOOLEAN, t \in RichTails}
    ELSE {[status |-> "error"], [status |-> "empty"],
          Ok(DropFirst(ScanSeries(TRUE, TRUE, Flat))),
          Ok(ScanSeries(TRUE, TRUE, Flat)),
          Ok(ScanSeries(TRUE, FALSE, Flat)),
          Ok(ScanSeries(FALSE, FALSE, Flat)),
          Ok(ScanSeries(TRUE, TRUE, <<200, 200, 200, 218, 200, 200>>))}

\* ---------------------------------------------------------------------
\* main
\* ---------------------------------------------------------------------
\* list.sort(key=break_date, reverse=True): stable, latest break first
RECURSIVE InsertAscending(_, _)
InsertAscending(sorted, x) ==
    IF sorted = <<>> THEN <<x>>
    ELSE IF Head(sorted).break_date <= x.break_date
         THEN <<Head(sorted)>> \o InsertAscending(Tail(sorted), x)
         ELSE <<x>> \o sorted

RECURSIVE InsertDescending(_, _)
InsertDescending(sorted, x) ==
    IF sorted = <<>> THEN <<x>>
    ELSE IF Head(sorted).break_date >= x.break_date
         THEN <<Head(sorted)>> \o InsertDescending(Tail(sorted), x)
         ELSE <<x>> \o sorted

RECURSIVE SortByBreakDate(_, _)
SortByBreakDate(list, sorted) ==
    IF list = <<>> THEN sorted
    ELSE SortByBreakDate(Tail(list), InsertDescending(sorted, Head(list)))

\* break_date < recent_cutoff
TooOld(pat, day) == pat.break_date < day - RECENT_DAYS

\* the replay loop over range(entry_index + 1, len(df)), with its break
RECURSIVE ReplayLoopStrict(_, _, _, _)
ReplayLoopStrict(d, idx, entry_price, is_bullish) ==
    IF idx >= DataLen(d) THEN FALSE
    ELSE LET close == At(d.close, idx)
         IN  IF is_bullish
             THEN IF \/ close * 1000 < entry_price * (1000 - STOP_LOSS_PERMILLE)
                     \/ close * 1000 > entry_price * (1000 + TAKE_PROFIT_PERMILLE)
                  THEN TRUE
                  ELSE ReplayLoopStrict(d, idx + 1, entry_price, is_bullish)
             ELSE IF \/ close * 1000 > entry_price * (1000 + STOP_LOSS_PERMILLE)
                     \/ close * 1000 < entry_price * (1000 - TAKE_PROFIT_PERMILLE)
                  THEN TRUE
                  ELSE ReplayLoopStrict(d, idx + 1, entry_price, is_bullish)

RECURSIVE ReplayLoop(_, _, _, _)
ReplayLoop(d, idx, entry_price, is_bullish) ==
    IF idx >= DataLen(d) THEN FALSE
    ELSE LET close == At(d.close, idx)
         IN  IF is_bullish
             THEN IF \/ close * 1000 <= entry_price * (1000 - STOP_LOSS_PERMILLE)
                     \/ close * 1000 >= entry_price * (1000 + TAKE_PROFIT_PERMILLE)
                  THEN TRUE
                  ELSE ReplayLoop(d, idx + 1, entry_price, is_bullish)
             ELSE IF \/ close * 1000 >= entry_price * (1000 + STOP_LOSS_PERMILLE)
                     \/ close * 1000 <= entry_price * (1000 - TAKE_PROFIT_PERMILLE)
                  THEN TRUE
                  ELSE ReplayLoop(d, idx + 1, entry_price, is_bullish)

Line(tk, kind) == [ticker |-> tk, kind |-> kind]

InitMain(file_symbols, f) ==
    /\ pc = "next_ticker"
    /\ data = EmptyData
    /\ period = SWING_PERIOD
    /\ find_tops = TRUE
    /\ swings = <<>>
    /\ bearish = TRUE
    /\ patterns = <<>>
    /\ ticker = ""
    /\ pattern = NoPattern
    /\ entry = NoEntry
    /\ signal = NoSignal
    /\ tickers = LoadTickers(file_symbols)
    /\ ti = 0
    /\ all_patterns = <<>>
    /\ pk = 0
    /\ already_closed = FALSE
    /\ found_signal = FALSE
    /\ all_signals = <<>>
    /\ today \in 49..(49 + MaxLag)
    /\ out = <<>>
    /\ feed = f
    /\ fetched = <<>>

\* for ticker in tickers: df = download_data(ticker); skip on no or short data
Download ==
    /\ pc = "next_ticker"
    /\ ti < Len(tickers)
    /\ \E resp \in Responses(feed) :
          /\ fetched' = Append(fetched, resp)
          /\ data' = DownloadData(resp)
    /\ ticker' = tickers[ti + 1]
    /\ ti' = ti + 1
    /\ IF TooShort(data')
       THEN /\ out' = Append(out, Line(ticker', "skip"))
            /\ pc' = "next_ticker"
       ELSE /\ out' = out
            /\ pc' = "detect"
    /\ UNCHANGED <<period, find_tops, swings, bearish, patterns, pattern, entry, signal,
                   tickers, all_patterns, pk, already_closed, found_signal,
                   all_signals, today, feed>>

\* both detect_hs calls, the merge and the sort
Detect ==
    /\ pc = "detect"
    /\ LET all == DetectHs(data, TRUE) \o DetectHs(data, FALSE)
       IN  IF all = <<>>
           THEN /\ all_patterns' = all
                /\ out' = Append(out, Line(ticker, "nessun pattern"))
                /\ pc' = "next_ticker"
                /\ UNCHANGED found_signal
           ELSE /\ found_signal' = FALSE
                /\ all_patterns' = SortByBreakDate(all, <<>>)
                /\ out' = out
                /\ pc' = "next_pattern"
    /\ pk' = 0
    /\ UNCHANGED <<callvars, ticker, pattern, entry, signal, tickers, ti,
                   already_closed, all_signals, today, feed, fetched>>

\* for p in all_patterns: the recency test and simulate_entry
NextPattern ==
    /\ pc = "next_pattern"
    /\ IF pk = Len(all_patterns)
       THEN /\ out' = IF ~found_signal
                      THEN Append(out, Line(ticker, "nessun segnale attivo")) ELSE out
            /\ pc' = "next_ticker"
            /\ UNCHANGED <<pattern, pk, entry>>
       ELSE /\ pattern' = all_patterns[pk + 1]
            /\ pk' = pk + 1
            /\ out' = out
            /\ IF TooOld(pattern', today)
               THEN /\ pc' = "next_pattern"
                    /\ UNCHANGED entry
               ELSE /\ entry' = SimulateEntry(pattern', data)
                    /\ pc' = IF entry' = NoEntry THEN "next_pattern" ELSE "replay"
    /\ UNCHANGED <<callvars, ticker, signal, tickers, ti, all_patterns, already_closed,
                   found_signal, all_signals, today, feed, fetched>>

\* the replay of the closes after the entry
Replay ==
    /\ pc = "replay"
    /\ already_closed' = ReplayLoop(data, entry.entry_index + 1, entry.entry_price,
                                    pattern.type = "bullish")
    /\ pc' = "closed_check"
    /\ UNCHANGED <<callvars, ticker, pattern, entry, signal, tickers, ti, all_patterns,
                   pk, found_signal, all_signals, today, out, feed, fetched>>

\* if already_closed: continue; else generate_signal, append, break
ClosedCheck ==
    /\ pc = "closed_check"
    /\ IF already_closed
       THEN /\ pc' = "next_pattern"
            /\ UNCHANGED <<signal, all_signals, out, found_signal>>
       ELSE /\ signal' \in GenerateSignal(ticker, pattern, entry)
            /\ all_signals' = Append(all_signals, signal')
            /\ out' = Append(out, Line(ticker, "signal"))
            /\ found_signal' = TRUE
            /\ pc' = "next_ticker"
    /\ UNCHANGED <<callvars, ticker, pattern, entry, tickers, ti, all_patterns, pk,
                   already_closed, today, feed, fetched>>

\* the loop over the tickers is over: signals.json is written
WriteOutput ==
    /\ pc = "next_ticker"
    /\ ti = Len(tickers)
    /\ pc' = "written"
    /\ UNCHANGED <<callvars, scanvars>>

NextMain == Download \/ Detect \/ NextPattern \/ Replay \/ ClosedCheck \/ WriteOutput

\* one ticker, every table of the rich family
InitSelect == InitMain({}, "rich")

SpecSelect == InitSelect /\ [][NextMain]_vars

\* one to three tickers, a few tables and the failing answers
InitScan ==
    \E file_symbols \in SUBSET {TickerOrder[k] : k \in 1..Len(TickerOrder)} :
        /\ Cardinality(file_symbols) <= MaxFileSymbols
        /\ InitMain(file_symbols, "coarse")

SpecScan == InitScan /\ [][NextMain]_vars


\* a close after the entry session reaches the stop or the target
Reached(d, pat, entry_index, entry_price) ==
    \E idx \in (entry_index + 1)..(DataLen(d) - 1) :
        LET close == At(d.close, idx)
        IN  IF pat.type = "bullish"
            THEN close * 1000 <= entry_price * 965 \/ close * 1000 >= entry_price * 1090
            ELSE close * 1000 >= entry_price * 1035 \/ close * 1000 <= entry_price * 910

\* ---------------------------------------------------------------------
\* C5: a pattern with entry session e and entry price p is excluded as
\* already closed exactly when some session strictly after e has a close
\* that reaches the stop or the target: for a bullish pattern close <=
\* p*(1 - 3.5/100) or close >= p*(1 + 9/100), for a bearish pattern close >=
\* p*(1 + 3.5/100) or close <= p*(1 - 9/100).  With no session after e the
\* pattern is never excluded this way.
\* ---------------------------------------------------------------------
C5_ClosedIffReached ==
    pc = "closed_check" =>
        /\ already_closed <=> Reached(data, pattern, entry.entry_index, entry.entry_price)
        /\ entry.entry_index = DataLen(data) - 1 => ~already_closed

\* a bullish pattern excluded by a close exactly on the stop, no close
\* beyond it and none at the target
C5_Witness ==
    /\ pc = "closed_check"
    /\ already_closed
    /\ pattern.type = "bullish"
    /\ \E idx \in (entry.entry_index + 1)..(DataLen(data) - 1) :
          At(data.close, idx) * 1000 = entry.entry_price * 965
    /\ \A idx \in (entry.entry_index + 1)..(DataLen(data) - 1) :
          /\ At(data.close, idx) * 1000 >= entry.entry_price * 965
          /\ At(data.close, idx) * 1000 < entry.entry_price * 1090

\* a pattern entered on the last session goes on to a signal
C5_LastSessionWitness ==
    /\ pc = "closed_check"
    /\ entry.entry_index = DataLen(data) - 1
    /\ ~already_closed

\* ---------------------------------------------------------------------
\* Reference notions for the selection
\* ---------------------------------------------------------------------
\* the candidates of the ticker just processed
Candidates == {all_patterns[k] : k \in 1..Len(all_patterns)}

\* break within the last 7 days, an entry session exists, not already closed
Qualifies(d, pat, day) ==
    /\ pat.break_date >= day - 7
    /\ pat.break_index + 1 < DataLen(d)
    /\ ~Reached(d, pat, pat.break_index + 1, At(d.close, pat.break_index + 1))

Qualifying == {p \in Candidates : Qualifies(data, p, today)}

\* sig is the signal of pattern pat of ticker tk over table d
SignalOf(sig, tk, d, pat) ==
    /\ sig.ticker = tk
    /\ sig.signal_type = (IF pat.type = "bullish" THEN "BUY" ELSE "SELL")
    /\ sig.break_date = pat.break_date
    /\ sig.entry_date = At(d.date, pat.break_index + 1)
    /\ NearestScaled(sig.entry_price, At(d.close, pat.break_index + 1), 1000)
    /\ sig.head_price \in RoundDiv(pat.head.price, 10)

SignalsOfTicker(tk) == {k \in 1..Len(all_signals) : all_signals[k].ticker = tk}

\* the ticker at position ti has been processed to its end, not skipped
TickerProcessed ==
    /\ pc \in {"next_ticker", "written"}
    /\ ti >= 1
    /\ Len(out) = ti
    /\ out[ti].kind # "skip"

\* ---------------------------------------------------------------------
\* C4: for each instrument at most one signal is emitted, and it is built
\* from the qualifying candidate (recent break, entry session exists, not
\* already closed) with the most recent break date; with no qualifying
\* candidate the instrument gets no signal.
\* ---------------------------------------------------------------------
C4_MostRecentQualifying ==
    /\ \A k \in 1..Len(tickers) : Cardinality(SignalsOfTicker(tickers[k])) <= 1
    /\ TickerProcessed =>
          /\ Qualifying = {} => SignalsOfTicker(ticker) = {}
          /\ Qualifying # {} =>
                /\ SignalsOfTicker(ticker) = {Len(all_signals)}
                /\ \E p \in Qualifying :
                      /\ \A q \in Qualifying : q.break_date <= p.break_date
                      /\ SignalOf(all_signals[Len(all_signals)], ticker, data, p)

\* two qualifying candidates with different break dates, and a signal
C4_Witness ==
    /\ TickerProcessed
    /\ \E p, q \in Qualifying : p.break_date < q.break_date
    /\ SignalsOfTicker(ticker) # {}

\* the candidate with the latest break is closed, an older one gives the signal
C4_OlderWitness ==
    /\ TickerProcessed
    /\ SignalsOfTicker(ticker) # {}
    /\ \E p \in Candidates \ Qualifying :
          \A q \in Qualifying : q.break_date < p.break_date

\* ---------------------------------------------------------------------
\* Reference notions for the scan: what a ticker contributes, as a function
\* of the provider's answer for that ticker alone
\* ---------------------------------------------------------------------
Skipped(resp) ==
    \/ resp.status # "ok"
    \/ Len(resp.table.close) < 50

RECURSIVE FirstQualifying(_, _, _)
FirstQualifying(d, list, day) ==
    IF list = <<>> THEN <<>>
    ELSE IF Qualifies(d, Head(list), day) THEN <<Head(list)>>
         ELSE FirstQualifying(d, Tail(list), day)

\* the signals the ticker alone would give
Contribution(tk, resp, day) ==
    IF Skipped(resp) THEN {}
    ELSE LET d    == resp.table
             all  == SortByBreakDate(DetectHs(d, TRUE) \o DetectHs(d, FALSE), <<>>)
             best == FirstQualifying(d, all, day)
         IN  IF best = <<>> THEN {}
             ELSE GenerateSignal(tk, best[1], SimulateEntry(best[1], d))

TickerPos(tk) == CHOOSE k \in 1..Len(tickers) : tickers[k] = tk

\* ---------------------------------------------------------------------
\* C7: a ticker whose fetch fails, returns nothing or returns fewer than 50
\* sessions is skipped and contributes no signal; the scan goes on to the
\* remaining tickers and ends normally; the signals of the other tickers
\* are what they would be without the skipped ones, in ticker order.
\* ---------------------------------------------------------------------
C7_SkipsDoNotStopScan ==
    /\ \A k \in 1..Len(out) : out[k].ticker = tickers[k]
    /\ \A k \in 1..Len(out) :
          Skipped(fetched[k]) =>
              /\ out[k].kind = "skip"
              /\ SignalsOfTicker(tickers[k]) = {}
    /\ \A a, b \in 1..Len(all_signals) :
          a < b => TickerPos(all_signals[a].ticker) < TickerPos(all_signals[b].ticker)
    /\ pc = "next_ticker" => Len(out) = ti /\ Len(fetched) = ti
    /\ pc = "written" =>
          /\ ti = Len(tickers)
          /\ Len(out) = Len(tickers)
          /\ Len(fetched) = Len(tickers)
          /\ \A k \in 1..Len(tickers) :
                LET own == Contribution(tickers[k], fetched[k], today)
                    got == {all_signals[x] : x \in SignalsOfTicker(tickers[k])}
                IN  IF own = {} THEN got = {}
                    ELSE Cardinality(got) = 1 /\ got \subseteq own

\* the scan has ended: the first ticker gave a signal, then came a failed
\* fetch, an empty answer or a short table, and the last ticker gave a signal
C7_Witness ==
    /\ pc = "written"
    /\ Len(tickers) = 3
    /\ fetched[2].status = "ok"
    /\ Len(fetched[2].table.close) = 49
    /\ Len(all_signals) = 2
    /\ all_signals[1].ticker = tickers[1]
    /\ all_signals[2].ticker = tickers[3]


====
